---- MODULE Spec2Model ----
(***************************************************************************)
(* The live test-session lifecycle of the iPerf3 web UI: the click handler *)
(* of the run button (runTest.js, src/unnamed/part_002), the gauge module  *)
(* it drives (gauge.js, src/unnamed/part_003), the EventSource stream and  *)
(* the /run_iperf start request.                                           *)
(*                                                                         *)
(* Every run of the click handler is a closure with its own eventSource,   *)
(* noDataTimer and lastCmd; the DOM (status text, log, overlay, button),   *)
(* the aggregates in state.js, the gauge module and window.__iperfES are   *)
(* shared by all runs.  Per-run values are functions over Runs.            *)
(*                                                                         *)
(* Throughput numbers are fixed-point integers: thousandths of the display *)
(* unit.  Time is in milliseconds and advances in steps of TickMs.         *)
(***************************************************************************)
EXTENDS Integers, Sequences, FiniteSets, TLC

\* ------------------------------------------------------------------ bounds
MaxRuns == 2        \* clicks on the run button that the model follows
MaxLines == 1       \* stream lines appended to the output log within one run
MaxSamples == 3     \* samples of one run that the gauge's specification follows

Runs == 1..MaxRuns

\* ------------------------------------------------------- program constants
Kilo == 1000                      \* the factor between K, M and G
NO_DATA_MS(m) == IF m = "download" THEN 45000 ELSE 15000
TickMs == NO_DATA_MS("upload")    \* granularity of the model's clock
TimerOff == 0 - 1                 \* noDataTimer = null
SWEEP_MAX_FRACTION_PCT == 12      \* sweepMaxFraction: 0.12

\* the form values (state.mode, state.units) a run is started with
Configs == { [mode |-> "download", units |-> "Mbps"],
             [mode |-> "upload", units |-> "Gbps"] }
Terminal == {"Complete", "Error", "Server is Busy"}

\* initialMax, in thousandths of the display unit
initialMax(u) == (IF u = "Gbps" THEN 1 ELSE IF u = "Kbps" THEN 1000000 ELSE 1000) * Kilo

VARIABLES
  status,             \* .status text
  avg_speed,          \* .avg_speed text: [val, units], val = -1 for "-"
  max_speed,          \* .max_speed text
  disabled,           \* runBtn.disabled
  overlay,            \* #speedtestOverlay: [shown, close, kind, msg, val]
  result,             \* #result text, a sequence of lines
  bandwidthSum, bandwidthCount, maxBandwidth,     \* state.js aggregates
  needle,             \* the value last given to gauge.set
  gaugeMax,           \* gauge.maxValue
  sweepTimer,         \* gauge.js sweepTimer armed
  sweepDir,
  sweepAutoStopTimer, \* gauge.js sweepAutoStopTimer armed
  hasRealValue,
  nRuns,              \* runs started so far; the latest run is nRuns
  mode,               \* per run: const mode
  units,              \* per run: const units
  readyState,         \* per run: readyState of the run's EventSource
  eventSource,        \* per run: the closure's eventSource is non-null
  iperfES,            \* window.__iperfES: the run whose connection it holds, 0 = null
  noDataTimer,        \* per run: ms until the timer is due, TimerOff = null
  lastCmd,            \* per run
  fetch,              \* per run: "none", "pending", "done"
  closeCalls,         \* per run: close() invocations on the run's EventSource
  idle,               \* per run: ms since the run's last open/message/error event
                      \*          (or since its start), capped at the longest window
  samples,            \* the samples the latest run's stream has delivered, in order
  issued,             \* per run: what the click handler has set going, in order
  displayedValue,     \* the position the gauge's pointer is drawn at
  readout,            \* #current-value text, in hundredths; NoReadout before the
                      \* readout loop has written it
  readoutRaf,         \* gauge.js readoutRaf: the readout loop is running
  cards,              \* the statistics cards: texts and classes
  lastStats,          \* the /api/stats response that was rendered last
  parsed,             \* the last call of extractBandwidth: line, units, value
  poll,               \* the loop of startStatsPolling: its closure and what it has pending
  refresh             \* requests of refreshStats (uiHandlers.js) in flight

vars == <<status, avg_speed, max_speed, disabled, overlay, result, bandwidthSum,
          bandwidthCount, maxBandwidth, needle, gaugeMax, sweepTimer, sweepDir,
          sweepAutoStopTimer, hasRealValue, nRuns, mode, units, readyState,
          eventSource, iperfES, noDataTimer, lastCmd, fetch, closeCalls, idle,
          samples, issued, displayedValue, readout, readoutRaf, cards, lastStats,
          parsed, poll, refresh>>

\* The whole state as one record, so that the handlers below can be written as
\* functions from state to state and composed in the order the code calls them.
State ==
  [status |-> status, avg_speed |-> avg_speed, max_speed |-> max_speed,
   disabled |-> disabled, overlay |-> overlay, result |-> result,
   bandwidthSum |-> bandwidthSum, bandwidthCount |-> bandwidthCount,
   maxBandwidth |-> maxBandwidth, needle |-> needle, gaugeMax |-> gaugeMax,
   sweepTimer |-> sweepTimer, sweepDir |-> sweepDir,
   sweepAutoStopTimer |-> sweepAutoStopTimer, hasRealValue |-> hasRealValue,
   nRuns |-> nRuns, mode |-> mode, units |-> units, readyState |-> readyState,
   eventSource |-> eventSource, iperfES |-> iperfES, noDataTimer |-> noDataTimer,
   lastCmd |-> lastCmd, fetch |-> fetch, closeCalls |-> closeCalls, idle |-> idle,
   samples |-> samples, issued |-> issued, displayedValue |-> displayedValue,
   readout |-> readout, readoutRaf |-> readoutRaf]

\* The connection of run r is closed and its timer is cancelled: no stream
\* handler of the run runs again, so its timer stays cancelled.
over(S, r) ==
  S.readyState[r] = "CLOSED" /\ S.noDataTimer[r] = TimerOff

\* What no code can read any more is dropped from the state: units is read by
\* the message handler alone, mode where the timer is armed (and by the claims
\* while it is armed), lastCmd by the timer's callback alone.  idle is kept
\* while the run's timer is armed, samples while the latest run's connection
\* can deliver its end marker.
collect(S) ==
  [S EXCEPT !.units = [r \in Runs |-> IF S.readyState[r] = "CLOSED" THEN "Mbps" ELSE S.units[r]],
            !.mode = [r \in Runs |-> IF over(S, r) THEN "upload" ELSE S.mode[r]],
            !.lastCmd = [r \in Runs |-> IF over(S, r) THEN "" ELSE S.lastCmd[r]],
            !.idle = [r \in Runs |-> IF S.noDataTimer[r] = TimerOff THEN 0 ELSE S.idle[r]],
            !.samples = IF \E r \in Runs : r = S.nRuns /\ S.readyState[r] # "CLOSED"
                          THEN S.samples ELSE <<>>]

\* the state a handler leaves becomes the next state
Commit(S) ==
  \E T \in {collect(S)} :
    /\ status' = T.status /\ avg_speed' = T.avg_speed /\ max_speed' = T.max_speed
    /\ disabled' = T.disabled /\ overlay' = T.overlay /\ result' = T.result
    /\ bandwidthSum' = T.bandwidthSum /\ bandwidthCount' = T.bandwidthCount
    /\ maxBandwidth' = T.maxBandwidth /\ needle' = T.needle /\ gaugeMax' = T.gaugeMax
    /\ sweepTimer' = T.sweepTimer /\ sweepDir' = T.sweepDir
    /\ sweepAutoStopTimer' = T.sweepAutoStopTimer /\ hasRealValue' = T.hasRealValue
    /\ nRuns' = T.nRuns /\ mode' = T.mode /\ units' = T.units
    /\ readyState' = T.readyState /\ eventSource' = T.eventSource
    /\ iperfES' = T.iperfES /\ noDataTimer' = T.noDataTimer /\ lastCmd' = T.lastCmd
    /\ fetch' = T.fetch /\ closeCalls' = T.closeCalls /\ idle' = T.idle
    /\ samples' = T.samples /\ issued' = T.issued
    /\ displayedValue' = T.displayedValue /\ readout' = T.readout
    /\ readoutRaf' = T.readoutRaf
    /\ cards' = cards /\ lastStats' = lastStats /\ parsed' = parsed
    /\ poll' = poll /\ refresh' = refresh

NoUnits == "-"
Dash == [val |-> 0 - 1, units |-> NoUnits]
HiddenOverlay == [shown |-> FALSE, close |-> FALSE, kind |-> "", msg |-> "", val |-> 0]
NoReadout == 0 - 1
\* A text of the link description is its content and whether the pattern
\* /down|disconnected|no/i finds a match in it.
Word(body, found) == [body |-> body, found |-> found]
NoData == Word("--", FALSE)
\* the separator of parts.join, U+2022 between two spaces, written in ASCII
Bullet == " * "

\* stats.link: NoLink for a missing one, else ok, link and speed
NoLink == [none |-> TRUE, ok |-> FALSE, link |-> Word("", FALSE), speed |-> Word("", FALSE)]
Link(ok, l, sp) == [none |-> FALSE, ok |-> ok, link |-> l, speed |-> sp]
NoKeys == [k \in {} |-> 0]
\* no response has been rendered yet
NoStats == [link |-> NoLink, delta |-> NoKeys]

\* extractBandwidth has not been called
NoCall ==
  [line |-> [pad |-> FALSE, body |-> "", tag |-> "", pure |-> FALSE, num |-> 0,
             bw |-> <<>>],
   units |-> NoUnits, value |-> [nan |-> TRUE, v |-> 0]]

\* startStatsPolling has not been called.  timer is the closure's timer being
\* non-null, pending the number of its timeouts that are due to fire, inflight
\* the number of its /api/stats requests that have not settled.
NoPolling ==
  [started |-> FALSE, stopped |-> FALSE, timer |-> FALSE, pending |-> 0,
   inflight |-> 0]

\* the statistics cards before the first /api/stats response
NoCards ==
  [linkInfo |-> "", pktErrDelta |-> "", dropDelta |-> "", crcDelta |-> "",
   qualityBadge |-> "",
   cls |-> [pktErrDelta |-> "", dropDelta |-> "", qualityBadge |-> ""]]

Init ==
  /\ status = "" /\ avg_speed = Dash /\ max_speed = Dash
  /\ disabled = FALSE /\ overlay = HiddenOverlay /\ result = <<>>
  /\ bandwidthSum = 0 /\ bandwidthCount = 0 /\ maxBandwidth = 0
  /\ needle = 0 /\ gaugeMax = initialMax("Mbps")
  /\ sweepTimer = FALSE /\ sweepDir = 1 /\ sweepAutoStopTimer = FALSE
  /\ hasRealValue = FALSE
  /\ nRuns = 0
  /\ mode = [r \in Runs |-> "upload"] /\ units = [r \in Runs |-> "Mbps"]
  /\ readyState = [r \in Runs |-> "NONE"]
  /\ eventSource = [r \in Runs |-> FALSE]
  /\ iperfES = 0
  /\ noDataTimer = [r \in Runs |-> TimerOff]
  /\ lastCmd = [r \in Runs |-> ""]
  /\ fetch = [r \in Runs |-> "none"]
  /\ closeCalls = [r \in Runs |-> 0]
  /\ idle = [r \in Runs |-> 0]
  /\ samples = <<>>
  /\ issued = [r \in Runs |-> <<>>]
  /\ displayedValue = 0 /\ readout = NoReadout /\ readoutRaf = FALSE
  /\ cards = NoCards /\ lastStats = NoStats
  /\ parsed = NoCall
  /\ poll = NoPolling /\ refresh = 0

\* ------------------------------------------------------------------ overlay
showOverlay(S, kind, msg, val, showClose) ==
  [S EXCEPT !.overlay = [shown |-> TRUE, close |-> showClose, kind |-> kind,
                         msg |-> msg, val |-> val]]

\* hideOverlay leaves the text in place and hides the box and its close button
hideOverlay(S) ==
  [S EXCEPT !.overlay.shown = FALSE, !.overlay.close = FALSE]

\* -------------------------------------------------------------------- gauge
stopSweep(S) ==
  [S EXCEPT !.sweepTimer = FALSE, !.sweepAutoStopTimer = FALSE]

\* gauge.maxValue * clamp01(maxFraction)
sweepTop(S) == (S.gaugeMax * SWEEP_MAX_FRACTION_PCT) \div 100

startSweep(S) ==
  [stopSweep(S) EXCEPT !.sweepDir = 1, !.needle = 0,
                       !.sweepTimer = TRUE, !.sweepAutoStopTimer = TRUE]

\* the sweep interval's callback
sweepTick(S) ==
  [S EXCEPT !.needle = IF S.sweepDir > 0 THEN sweepTop(S) ELSE 0,
            !.sweepDir = 0 - S.sweepDir]

\* the auto-stop callback as it would be if it left the sweep interval running
sweepAutoStopKeepsInterval(S) ==
  [S EXCEPT !.sweepAutoStopTimer = FALSE, !.needle = 0]

\* the auto-stop timer's callback
sweepAutoStop(S) ==
  [stopSweep(S) EXCEPT !.needle = 0]

\* the readout loop is started once and then re-schedules itself
startReadoutSync(S) == [S EXCEPT !.readoutRaf = TRUE]

\* the readout loop as it would be if it always showed the pointer's position
readoutTickShowsPointer(S) ==
  [S EXCEPT !.readout = (S.displayedValue + 5) \div 10]

\* one frame of the readout loop
readoutTick(S) ==
  LET dv == S.displayedValue
      showValue == IF ~S.hasRealValue /\ S.sweepTimer THEN 0 ELSE dv
  IN  [S EXCEPT !.readout = (showValue + 5) \div 10]

\* a new Gauge is drawn with its pointer at 0
initGauge(S, doSweep, initMax) ==
  LET G == [stopSweep(S) EXCEPT !.hasRealValue = FALSE, !.gaugeMax = initMax,
                                !.needle = 0, !.displayedValue = 0]
      R == startReadoutSync(G)
  IN  IF doSweep THEN startSweep(R) ELSE R

Pow10[k \in 0..7] == IF k = 0 THEN 1 ELSE 10 * Pow10[k - 1]

\* 10 ^ floor(log10(newMax / 5)) for newMax = 1.2 * v: the largest power of ten
\* p with p <= 6v/25 (v and p in thousandths)
magnitude(v) ==
  LET ok == {k \in 0..7 : 25 * Pow10[k] <= 6 * v}
  IN  Pow10[CHOOSE k \in ok : \A j \in ok : j <= k]

\* the first of 1, 2, 5 times the magnitude with newMax / s < 6, else 5 times
niceStep(v) ==
  LET m == magnitude(v)
  IN  IF v < 5 * m THEN m
      ELSE IF v < 5 * 2 * m THEN 2 * m
      ELSE 5 * m

\* niceMax as it would be with Math.floor
niceMaxFloor(v) ==
  LET step == niceStep(v)
  IN  ((6 * v) \div (5 * step)) * step

\* Math.ceil(newMax / step) * step
niceMax(v) ==
  LET step == niceStep(v)
  IN  ((6 * v + 5 * step - 1) \div (5 * step)) * step

\* updateGauge as it would be if the scale followed every sample
updateGaugeRescale(S, value) ==
  LET G == [stopSweep(S) EXCEPT !.hasRealValue = TRUE]
      E == IF value > 0 THEN [G EXCEPT !.gaugeMax = niceMax(value)] ELSE G
  IN  [E EXCEPT !.needle = value]

\* updateGauge as it would be if the scale were never recomputed
updateGaugeFixedScale(S, value) ==
  [stopSweep(S) EXCEPT !.hasRealValue = TRUE, !.needle = value]

\* updateGauge as it would be if it left the sweep running
updateGaugeKeepsSweep(S, value) ==
  LET G == [S EXCEPT !.hasRealValue = TRUE]
      E == IF 5 * value > 4 * G.gaugeMax
             THEN [G EXCEPT !.gaugeMax = niceMax(value)]
             ELSE G
  IN  [E EXCEPT !.needle = value]

updateGauge(S, value) ==
  LET G == [stopSweep(S) EXCEPT !.hasRealValue = TRUE]
      E == IF 5 * value > 4 * G.gaugeMax
             THEN [G EXCEPT !.gaugeMax = niceMax(value)]
             ELSE G
  IN  [E EXCEPT !.needle = value]

\* resetGauge as it would be if it stopped the sweep and left the needle
resetGaugeKeepNeedle(S) ==
  [stopSweep(S) EXCEPT !.hasRealValue = FALSE]

resetGauge(S) ==
  [stopSweep(S) EXCEPT !.hasRealValue = FALSE, !.needle = 0]

\* ------------------------------------------------ the run's inactivity timer
stopNoDataTimer(S, r) ==
  [S EXCEPT !.noDataTimer[r] = TimerOff]

\* EventSource.close() through a reference; c = 0 is the null reference of ?.
close(S, c) ==
  IF c = 0 THEN S
  ELSE [S EXCEPT !.readyState[c] = "CLOSED", !.closeCalls[c] = @ + 1]

\* cleanup as it would be if it left the start control alone
cleanupKeepsDisabled(S, r, reset, closeStream) ==
  LET S1 == stopNoDataTimer(hideOverlay(S), r)
      S2 == IF reset THEN resetGauge(S1) ELSE S1
      S3 == close(S2, IF S2.eventSource[r] THEN r ELSE 0)
      S4 == [S3 EXCEPT !.eventSource[r] = FALSE]
      S5 == close(S4, S4.iperfES)
  IN  IF closeStream THEN [S5 EXCEPT !.iperfES = 0] ELSE S2

\* cleanup as it would be if it dropped its references without closing them
cleanupNoClose(S, r, reset, closeStream) ==
  LET S1 == [stopNoDataTimer(hideOverlay(S), r) EXCEPT !.disabled = FALSE]
      S2 == IF reset THEN resetGauge(S1) ELSE S1
  IN  IF closeStream THEN [S2 EXCEPT !.eventSource[r] = FALSE, !.iperfES = 0] ELSE S2

\* cleanup as it would be if it closed its connection without dropping the
\* closure's reference to it
cleanupNoDeref(S, r, reset, closeStream) ==
  LET S1 == [stopNoDataTimer(hideOverlay(S), r) EXCEPT !.disabled = FALSE]
      S2 == IF reset THEN resetGauge(S1) ELSE S1
      S3 == close(S2, IF S2.eventSource[r] THEN r ELSE 0)
      S5 == close(S3, S3.iperfES)
  IN  IF closeStream THEN [S5 EXCEPT !.iperfES = 0] ELSE S2

cleanup(S, r, reset, closeStream) ==
  LET S1 == [stopNoDataTimer(hideOverlay(S), r) EXCEPT !.disabled = FALSE]
      S2 == IF reset THEN resetGauge(S1) ELSE S1
      S3 == close(S2, IF S2.eventSource[r] THEN r ELSE 0)
      S4 == [S3 EXCEPT !.eventSource[r] = FALSE]
      S5 == close(S4, S4.iperfES)
  IN  IF closeStream THEN [S5 EXCEPT !.iperfES = 0] ELSE S2

TimeoutLine == "Timeout: Keine Daten vom Stream erhalten."
LastCmdLine(c) == "Letzter CMD: " \o c

\* the timer's callback as it would be without the line naming the command
noDataTimeoutNoCmd(S, r) ==
  cleanup([S EXCEPT !.status = "Error", !.result = Append(@, TimeoutLine)], r, TRUE, TRUE)

\* what the timer's callback does when it fires
noDataTimeout(S, r) ==
  LET S1 == [S EXCEPT !.status = "Error", !.result = Append(@, TimeoutLine)]
      S2 == IF S1.lastCmd[r] # ""
              THEN [S1 EXCEPT !.result = Append(@, LastCmdLine(S1.lastCmd[r]))]
              ELSE S1
  IN  cleanup(S2, r, TRUE, TRUE)

armNoDataTimer(S, r) ==
  [stopNoDataTimer(S, r) EXCEPT !.noDataTimer[r] = NO_DATA_MS(S.mode[r])]

\* ------------------------------------------------------------ stream payloads
\* A text (an event's data, a command) is its content and whether white space
\* surrounds it; a line also carries what the patterns of the handler find in
\* it: the tag it starts with, whether it is purely a signed decimal number
\* (num, in thousandths), and its bandwidth mentions in order (val in
\* thousandths, prefix "" when the line gives none).
Text(pad, body) == [pad |-> pad, body |-> body]
Line(pad, body, tag, pure, num, bw) ==
  [pad |-> pad, body |-> body, tag |-> tag, pure |-> pure, num |-> num, bw |-> bw]
Plain(pad, body) == Line(pad, body, "", FALSE, 0, <<>>)
Mention(val, prefix) == [val |-> val, prefix |-> prefix]

trim(t) == [t EXCEPT !.pad = FALSE]

CmdText == "iperf3 -c 192.168.10.2 -p 5201"
Payloads ==
  { Plain(FALSE, ""), Plain(TRUE, ""), Plain(FALSE, "ping"),
    Line(FALSE, "-1", "", TRUE, (0 - 1) * Kilo, <<>>),
    Plain(FALSE, "server is busy"),
    Line(TRUE, "CMD: " \o CmdText, "CMD:", FALSE, 0, <<>>),
    Line(FALSE, "WORKER: 3 (100 Mbits/sec)", "WORKER:", FALSE, 0,
         <<Mention(100 * Kilo, "M")>>),
    Plain(FALSE, "Connecting to host 192.168.10.2, port 5201"),
    Line(FALSE, "[  5] 0.00-1.00 sec 11.9 MBytes 100 Mbits/sec", "", FALSE, 0,
         <<Mention(100 * Kilo, "M")>>),
    Line(TRUE, "[  5] 1.00-2.00 sec 107 MBytes 900 Mbits/sec", "", FALSE, 0,
         <<Mention(900 * Kilo, "M")>>) }

NaN == [nan |-> TRUE, v |-> 0]
Num(v) == [nan |-> FALSE, v |-> v]

\* toUpperCase on the letters the bandwidth pattern lets through
toUpperCase(c) ==
  IF c = "k" THEN "K" ELSE IF c = "m" THEN "M" ELSE IF c = "g" THEN "G" ELSE c

\* toSelectedUnits as it would be if it returned the Mbps figure for every unit
toSelectedUnitsMbps(val, prefix, u) ==
  LET p == toUpperCase(IF prefix = "" THEN "M" ELSE prefix)
  IN  IF p = "K" THEN val \div Kilo
      ELSE IF p = "G" THEN val * Kilo
      ELSE val

\* val, mbps and the result are in thousandths; the division is exact on the
\* figures that are followed
toSelectedUnits(val, prefix, u) ==
  LET p == toUpperCase(IF prefix = "" THEN "M" ELSE prefix)
      mbps == IF p = "K" THEN val \div Kilo
              ELSE IF p = "G" THEN val * Kilo
              ELSE val
  IN  IF u = "Kbps" THEN mbps * Kilo
      ELSE IF u = "Gbps" THEN mbps \div Kilo
      ELSE mbps

\* extractBandwidth as it would be if it took the first mention of a line
extractBandwidthFirst(line, u) ==
  LET s == trim(line)
  IN  IF s.pure THEN Num(s.num)
      ELSE IF Len(s.bw) = 0 THEN NaN
      ELSE Num(toSelectedUnits(s.bw[1].val, s.bw[1].prefix, u))

extractBandwidth(line, u) ==
  LET s == trim(line)
  IN  IF s.pure THEN Num(s.num)
      ELSE IF Len(s.bw) = 0 THEN NaN
      ELSE LET last == s.bw[Len(s.bw)]
           IN  Num(toSelectedUnits(last.val, last.prefix, u))

\* (sum / count).toFixed(2), in hundredths, for sum >= 0 in thousandths
toFixed2(sum, count) == (2 * sum + 10 * count) \div (20 * count)

appendLine(S, text) == [S EXCEPT !.result = Append(@, text)]

\* ------------------------------------------------------- the stream handlers
onOpen(S, r) == armNoDataTimer(S, r)

\* the end-marker branch as it would be if its cleanup reset the gauge
endMarkerResets(S, r) ==
  LET u   == S.units[r]
      avg == IF S.bandwidthCount > 0
               THEN toFixed2(S.bandwidthSum, S.bandwidthCount) ELSE 0
  IN  cleanup([S EXCEPT !.status = "Complete",
                        !.avg_speed = [val |-> avg, units |-> u],
                        !.max_speed = [val |-> S.maxBandwidth, units |-> u]],
              r, TRUE, TRUE)

\* the end marker: the average and the maximum are shown, the gauge is left
endMarker(S, r) ==
  LET u   == S.units[r]
      avg == IF S.bandwidthCount > 0
               THEN toFixed2(S.bandwidthSum, S.bandwidthCount) ELSE 0
  IN  cleanup([S EXCEPT !.status = "Complete",
                        !.avg_speed = [val |-> avg, units |-> u],
                        !.max_speed = [val |-> S.maxBandwidth, units |-> u]],
              r, FALSE, TRUE)

\* the busy branch as it would be if it left the gauge as it is
serverBusyNoReset(S, r) ==
  cleanup(appendLine([S EXCEPT !.status = "Server is Busy"], "server is busy"),
          r, FALSE, TRUE)

serverBusy(S, r) ==
  cleanup(appendLine([S EXCEPT !.status = "Server is Busy"], "server is busy"),
          r, TRUE, TRUE)

\* the sample branch as it would be if it counted the sample without giving
\* it to the gauge
addSampleNoGauge(S, text, v) ==
  LET T == [S EXCEPT !.bandwidthSum = @ + v,
                     !.bandwidthCount = @ + 1,
                     !.maxBandwidth = IF v > @ THEN v ELSE @,
                     !.status = "Running"]
  IN  showOverlay(appendLine(T, text), "running", "", v, FALSE)

\* a line with a figure: gauge, aggregates, status, log, overlay
addSample(S, text, v) ==
  LET G == updateGauge(S, v)
      T == [G EXCEPT !.bandwidthSum = @ + v,
                     !.bandwidthCount = @ + 1,
                     !.maxBandwidth = IF v > @ THEN v ELSE @,
                     !.status = "Running"]
  IN  showOverlay(appendLine(T, text), "running", "", v, FALSE)

\* the message handler as it would be if it dropped heartbeats before re-arming
onMessagePingFirst(S, r, data) ==
  LET s == trim(data)
      A == armNoDataTimer(S, r)
      u == A.units[r]
  IN  IF s.body = "" \/ s.body = "ping" THEN S
      ELSE IF s.body = "-1" THEN endMarker(A, r)
      ELSE IF s.body = "server is busy" THEN serverBusy(A, r)
      ELSE IF s.tag \in {"CMD:", "WORKER:", "LOGFILE:"} THEN appendLine(A, s.body)
      ELSE
        LET b == extractBandwidth(s, u)
        IN  IF b.nan THEN appendLine(A, s.body)
            ELSE addSample(A, s.body, b.v)

\* the message handler as it would be without the branch for tagged lines
onMessageParsesTagged(S, r, data) ==
  LET s == trim(data)
      A == armNoDataTimer(S, r)
      u == A.units[r]
  IN  IF s.body = "" \/ s.body = "ping" THEN A
      ELSE IF s.body = "-1" THEN endMarker(A, r)
      ELSE IF s.body = "server is busy" THEN serverBusy(A, r)
      ELSE
        LET b == extractBandwidth(s, u)
        IN  IF b.nan THEN appendLine(A, s.body)
            ELSE addSample(A, s.body, b.v)

onMessage(S, r, data) ==
  LET s == trim(data)
      A == armNoDataTimer(S, r)
      u == A.units[r]
  IN  IF s.body = "" \/ s.body = "ping" THEN A
      ELSE IF s.body = "-1" THEN endMarker(A, r)
      ELSE IF s.body = "server is busy" THEN serverBusy(A, r)
      ELSE IF s.tag \in {"CMD:", "WORKER:", "LOGFILE:"} THEN appendLine(A, s.body)
      ELSE
        LET b == extractBandwidth(s, u)
        IN  IF b.nan THEN appendLine(A, s.body)
            ELSE addSample(A, s.body, b.v)

ClosedLine == "SSE connection closed."

\* the error handler as it would be if it gave up on every transport error
onErrorAlwaysFatal(S, r) ==
  LET A == armNoDataTimer(S, r)
  IN  cleanup(appendLine([A EXCEPT !.status = "Error"], ClosedLine), r, TRUE, TRUE)

onError(S, r) ==
  LET A == armNoDataTimer(S, r)
  IN  IF A.readyState[r] = "CLOSED"
        THEN cleanup(appendLine([A EXCEPT !.status = "Error"], ClosedLine), r, TRUE, TRUE)
        ELSE A

\* ---------------------------------------------------------- the start request
DefaultStartError == "Error starting iPerf3."

\* the catch block as it would be without its cleanup
runCatchNoCleanup(S, r, message) ==
  LET S1 == [appendLine(S, message) EXCEPT !.status = "Error"]
  IN  showOverlay(S1, "error", message, 0, TRUE)

\* catch (error): log, status, cleanup, overlay
runCatch(S, r, message) ==
  LET S1 == [appendLine(S, message) EXCEPT !.status = "Error"]
  IN  showOverlay(cleanup(S1, r, TRUE, TRUE), "error", message, 0, TRUE)

\* !response.ok: cleanup, overlay, throw new Error(msg) into the catch
startFailed(S, r, error, statusText) ==
  LET msg == IF error # "" THEN error
             ELSE IF statusText # "" THEN statusText
             ELSE DefaultStartError
      S1 == showOverlay(cleanup(S, r, TRUE, TRUE), "startError", msg, 0, TRUE)
  IN  runCatch(S1, r, msg)

\* the success path as it would be if it took the response for the end of the run
startOkCompletes(S, r, cmd) ==
  LET c  == trim(cmd).body
      S1 == [S EXCEPT !.lastCmd[r] = c, !.status = "Complete"]
      S2 == IF c # "" THEN appendLine(S1, "CMD: " \o c) ELSE S1
  IN  showOverlay(S2, "connected", "", 0, FALSE)

\* response.ok: lastCmd, its log line, the "connected" overlay
startOk(S, r, cmd) ==
  LET c  == trim(cmd).body
      S1 == [S EXCEPT !.lastCmd[r] = c]
      S2 == IF c # "" THEN appendLine(S1, "CMD: " \o c) ELSE S1
  IN  showOverlay(S2, "connected", "", 0, FALSE)

\* the reset as it would be if it left the aggregates of the run before
uiResetKeepsAggregates(S, u) ==
  [S EXCEPT !.result = <<"Running iPerf3...">>,
            !.status = "Starting",
            !.avg_speed = [val |-> 0 - 1, units |-> u],
            !.max_speed = [val |-> 0 - 1, units |-> u]]

\* ------------------------------------------------------------ the run button
\* the click handler up to its first await (the fetch of /run_iperf)
\* log, aggregates, status and the two result fields as a run starts
uiReset(S, u) ==
  [S EXCEPT !.result = <<"Running iPerf3...">>,
            !.bandwidthSum = 0, !.bandwidthCount = 0, !.maxBandwidth = 0,
            !.status = "Starting",
            !.avg_speed = [val |-> 0 - 1, units |-> u],
            !.max_speed = [val |-> 0 - 1, units |-> u]]

\* crypto.randomUUID(): the n-th value it yields; its values are pairwise
\* distinct, and the click handler is its only caller
randomUUID(n) == n

\* new EventSource("/stream_iperf?cid=..."), kept in window.__iperfES
newEventSource(S, r, cid) ==
  [S EXCEPT !.readyState[r] = "CONNECTING", !.eventSource[r] = TRUE, !.iperfES = r,
            !.issued[r] = Append(@, [op |-> "EventSource", cid |-> cid])]

\* fetch("/run_iperf", {method: "POST", body: {..., cid}})
postRunIperf(S, r, cid) ==
  [S EXCEPT !.fetch[r] = "pending",
            !.issued[r] = Append(@, [op |-> "fetch", cid |-> cid])]

\* the click handler as it would be if it issued the start request first
runClickRequestFirst(S, m, u) ==
  LET r   == S.nRuns + 1
      S1  == uiReset([S EXCEPT !.nRuns = r, !.mode[r] = m, !.units[r] = u], u)
      S2  == initGauge(S1, TRUE, initialMax(u))
      S3  == showOverlay([S2 EXCEPT !.disabled = TRUE], "starting", "", 0, FALSE)
      S4  == [S3 EXCEPT !.eventSource[r] = FALSE, !.noDataTimer[r] = TimerOff,
                        !.lastCmd[r] = ""]
      S5  == [close(S4, S4.iperfES) EXCEPT !.iperfES = 0]
      cid == randomUUID(r)
      S6  == newEventSource(postRunIperf(S5, r, cid), r, cid)
  IN  [armNoDataTimer(S6, r) EXCEPT
         !.issued[r] = Append(@, [op |-> "setTimeout", cid |-> 0])]

runClick(S, m, u) ==
  LET r   == S.nRuns + 1
      S1  == uiReset([S EXCEPT !.nRuns = r, !.mode[r] = m, !.units[r] = u], u)
      S2  == initGauge(S1, TRUE, initialMax(u))
      S3  == showOverlay([S2 EXCEPT !.disabled = TRUE], "starting", "", 0, FALSE)
      S4  == [S3 EXCEPT !.eventSource[r] = FALSE, !.noDataTimer[r] = TimerOff,
                        !.lastCmd[r] = ""]
      S5  == [close(S4, S4.iperfES) EXCEPT !.iperfES = 0]
      cid == randomUUID(r)
      S6  == newEventSource(S5, r, cid)
      S7  == [armNoDataTimer(S6, r) EXCEPT
                !.issued[r] = Append(@, [op |-> "setTimeout", cid |-> 0])]
  IN  postRunIperf(S7, r, cid)

\* ------------------------------------------------------------------- actions
\* the inputs of the start request's outcomes
Cmds == {Text(FALSE, ""), Text(TRUE, ""), Text(TRUE, CmdText)}
ErrorFields == {"", "iPerf3 is already running"}
StatusTexts == {"", "CONFLICT"}
Thrown == {"Failed to fetch", "The user aborted a request."}

\* a payload that the message handler appends to the log as a stream line
appends(p) == trim(p).body \notin {"", "ping", "-1", "server is busy"}

\* A click reaches the handler only while the button is enabled.
RunClick ==
  /\ ~disabled
  /\ nRuns < MaxRuns
  /\ \E c \in Configs :
       Commit([runClick(State, c.mode, c.units) EXCEPT !.idle[nRuns + 1] = 0,
                                                         !.samples = <<>>])

\* the connection is established: readyState OPEN, then the open event
SseOpen(r) ==
  /\ readyState[r] = "CONNECTING"
  /\ Commit([onOpen([State EXCEPT !.readyState[r] = "OPEN"], r) EXCEPT !.idle[r] = 0])

\* a payload that is a numeric sample for the display unit u: no heartbeat, no
\* marker, no tagged line, and a figure can be read from it
IsSample(p, u) ==
  /\ appends(p)
  /\ trim(p).tag = ""
  /\ ~extractBandwidth(p, u).nan

\* the message handler has run on p; a sample is noted with its figure
received(S, r, p) ==
  [onMessage(S, r, p) EXCEPT
     !.idle[r] = 0,
     !.samples = IF IsSample(p, S.units[r])
                   THEN Append(S.samples, extractBandwidth(p, S.units[r]).v)
                   ELSE S.samples]

\* a message event of an open connection
Deliver(r, p) ==
  /\ readyState[r] = "OPEN"
  /\ appends(p) => Len(result) <= MaxLines
  /\ Commit(received(State, r, p))

SseMessage(r) == \E p \in Payloads : Deliver(r, p)

\* a transport error: the browser either reconnects (CONNECTING) or gives up
\* (CLOSED), and then fires the error event
Fail(r, c) ==
  /\ readyState[r] \in {"CONNECTING", "OPEN"}
  /\ Commit([onError([State EXCEPT !.readyState[r] = c], r) EXCEPT !.idle[r] = 0])

SseError(r) == \E c \in {"CONNECTING", "CLOSED"} : Fail(r, c)

\* the inactivity timer is due and its callback runs
NoDataTimeout(r) ==
  /\ noDataTimer[r] = 0
  /\ Commit(noDataTimeout(State, r))

\* the start request resolves with response.ok
Accept(r, c) ==
  /\ fetch[r] = "pending"
  /\ Commit([startOk(State, r, c) EXCEPT !.fetch[r] = "done"])

StartOk(r) == \E c \in Cmds : Accept(r, c)

\* the start request resolves with a non-success status
Refuse(r, e, t) ==
  /\ fetch[r] = "pending"
  /\ Commit([startFailed(State, r, e, t) EXCEPT !.fetch[r] = "done"])

StartFailed(r) == \E e \in ErrorFields, t \in StatusTexts : Refuse(r, e, t)

\* the start request rejects: a network error, or the abort of startTimeout
Reject(r, m) ==
  /\ fetch[r] = "pending"
  /\ Commit([runCatch(State, r, m) EXCEPT !.fetch[r] = "done"])

StartThrows(r) == \E m \in Thrown : Reject(r, m)

\* the sweep interval fires
SweepTick ==
  /\ sweepTimer
  /\ Commit(sweepTick(State))

\* the sweep's auto-stop timer fires
SweepAutoStop ==
  /\ sweepAutoStopTimer
  /\ Commit(sweepAutoStop(State))

\* TickMs of time pass
Tick ==
  /\ \E r \in Runs : noDataTimer[r] > 0
  /\ noDataTimer' = [r \in Runs |-> IF noDataTimer[r] > 0 THEN noDataTimer[r] - TickMs
                                    ELSE noDataTimer[r]]
  /\ idle' = [r \in Runs |->
                IF noDataTimer[r] # TimerOff /\ idle[r] < NO_DATA_MS("download")
                  THEN idle[r] + TickMs ELSE idle[r]]
  /\ UNCHANGED <<status, avg_speed, max_speed, disabled, overlay, result, bandwidthSum,
                 bandwidthCount, maxBandwidth, needle, gaugeMax, sweepTimer, sweepDir,
                 sweepAutoStopTimer, hasRealValue, nRuns, mode, units, readyState,
                 eventSource, iperfES, lastCmd, fetch, closeCalls, samples, issued,
                 displayedValue, readout, readoutRaf, cards, lastStats, parsed, poll, refresh>>

Next ==
  \/ RunClick
  \/ \E r \in Runs : SseOpen(r)
  \/ \E r \in Runs : SseMessage(r)
  \/ \E r \in Runs : SseError(r)
  \/ \E r \in Runs : NoDataTimeout(r)
  \/ \E r \in Runs : StartOk(r)
  \/ \E r \in Runs : StartFailed(r)
  \/ \E r \in Runs : StartThrows(r)
  \/ SweepTick
  \/ SweepAutoStop
  \/ Tick

Spec == Init /\ [][Next]_vars

\* an event of a run's stream reaches its handlers
StreamEvent == \E r \in Runs : SseOpen(r) \/ SseMessage(r) \/ SseError(r)

\* Time passes, a due timer runs its callback, and a pending start request
\* settles (fetch resolves or rejects, at the latest by the abort of its
\* startTimeout).  The stream owes nothing.
LiveSpec ==
  /\ Spec
  /\ WF_vars(Tick)
  /\ \A r \in Runs : WF_vars(NoDataTimeout(r))
  /\ \A r \in Runs : WF_vars(StartOk(r) \/ StartFailed(r) \/ StartThrows(r))

\* ------------------------------------------- a run followed sample by sample
\* a payload that is purely a number, taken as a figure in the display unit
Pure(body, n) == Line(FALSE, body, "", TRUE, n * Kilo, <<>>)
SamplePayloads ==
  { Pure("100", 100), Pure("120", 120), Pure("110", 110), Pure("500", 500) }

\* a message event that carries a sample
Measure(r, p) ==
  /\ readyState[r] = "OPEN"
  /\ bandwidthCount < MaxSamples
  /\ Commit(received(State, r, p))

SseSample(r) == \E p \in SamplePayloads : Measure(r, p)

\* the gauge has drawn its pointer at the value last set; the positions it
\* passes between two values are not followed
GaugeAnimate ==
  /\ displayedValue # needle
  /\ Commit([State EXCEPT !.displayedValue = needle])

\* an animation frame runs the readout loop
ReadoutTick ==
  /\ readoutRaf
  /\ Commit(readoutTick(State))

\* The stream of a run with up to MaxSamples samples, the gauge and its readout;
\* the start request stays pending and the inactivity timer is not yet due.
SampleNext ==
  \/ RunClick
  \/ \E r \in Runs : SseOpen(r)
  \/ \E r \in Runs : SseMessage(r)
  \/ \E r \in Runs : SseSample(r)
  \/ SweepTick
  \/ SweepAutoStop
  \/ GaugeAnimate
  \/ ReadoutTick

SampleSpec == Init /\ [][SampleNext]_vars

\* ------------------------------------------------------ the statistics cards
renderLinkInfo(link) ==
  IF link.none \/ ~link.ok THEN NoData
  ELSE IF link.link.body # "" /\ link.speed.body # ""
    THEN Word(link.link.body \o Bullet \o link.speed.body,
              link.link.found \/ link.speed.found)
  ELSE IF link.link.body # "" THEN link.link
  ELSE IF link.speed.body # "" THEN link.speed
  ELSE NoData

\* the sum of the numbers that obj has under keys; obj is a function from the
\* keys it has to numbers
RECURSIVE sumOver(_, _)
sumOver(obj, keys) ==
  IF keys = {} THEN 0
  ELSE LET k == CHOOSE x \in keys : TRUE
       IN  (IF k \in DOMAIN obj THEN obj[k] ELSE 0) + sumOver(obj, keys \ {k})
sumKeys(obj, keys) == sumOver(obj, keys)

computeQuality(pktErrDelta, dropDelta, crcDelta, linkText) ==
  LET score == pktErrDelta + dropDelta
  IN  IF linkText.found THEN [label |-> "BAD (link)", cls |-> "bad"]
      ELSE IF crcDelta > 0
        THEN [label |-> "BAD (CRC +" \o ToString(crcDelta) \o ")", cls |-> "bad"]
      ELSE IF score = 0 THEN [label |-> "OK", cls |-> "ok"]
      ELSE IF score <= 5 THEN [label |-> "WARN (+" \o ToString(score) \o ")", cls |-> "warn"]
      ELSE [label |-> "BAD (+" \o ToString(score) \o ")", cls |-> "bad"]

WinPktErrKeys == {"ReceivedErrors", "OutboundErrors"}
WinDropKeys == {"ReceivedDiscarded", "OutboundDiscarded"}
NixPktErrKeys == {"rx_errors", "tx_errors"}
NixDropKeys == {"rx_dropped", "tx_dropped", "rx_missed_errors"}
CrcKeys == {"rx_crc_errors", "rx_fcs_errors", "rx_crc_err", "rx_fcs_err",
            "crc_errors", "fcs_errors"}

\* pktErrOf as it would be if the Linux-style sum came first
pktErrOfNixFirst(delta) ==
  LET nix == sumKeys(delta, NixPktErrKeys)
  IN  IF nix # 0 THEN nix ELSE sumKeys(delta, WinPktErrKeys)

\* what updateStatsCards takes from the delta of a response
pktErrOf(delta) ==
  LET win == sumKeys(delta, WinPktErrKeys)
  IN  IF win # 0 THEN win ELSE sumKeys(delta, NixPktErrKeys)
dropOf(delta) ==
  LET win == sumKeys(delta, WinDropKeys)
  IN  IF win # 0 THEN win ELSE sumKeys(delta, NixDropKeys)

updateStatsCards(stats) ==
  LET linkText    == renderLinkInfo(stats.link)
      delta       == stats.delta
      crc         == sumKeys(delta, CrcKeys)
      pktErrDelta == pktErrOf(delta)
      dropDelta   == dropOf(delta)
      q           == computeQuality(pktErrDelta, dropDelta, crc, linkText)
  IN  [linkInfo |-> linkText.body,
       pktErrDelta |-> ToString(pktErrDelta),
       dropDelta |-> ToString(dropDelta),
       crcDelta |-> IF crc > 0 THEN ToString(crc)
                    ELSE IF "rx_crc_errors" \in DOMAIN delta \/ "rx_fcs_errors" \in DOMAIN delta
                      THEN "0"
                    ELSE "n/a",
       qualityBadge |-> q.label,
       cls |-> [pktErrDelta |-> IF pktErrDelta = 0 THEN "ok"
                                ELSE IF pktErrDelta <= 5 THEN "warn" ELSE "bad",
                dropDelta |-> IF dropDelta = 0 THEN "ok"
                              ELSE IF dropDelta <= 20 THEN "warn" ELSE "bad",
                qualityBadge |-> q.cls]]

\* the responses of /api/stats that are followed
Links ==
  { NoLink,
    Link(FALSE, Word("Up", FALSE), Word("1000Mb/s", FALSE)),
    Link(TRUE, Word("", FALSE), Word("", FALSE)),
    Link(TRUE, Word("Up", FALSE), Word("1000Mb/s", FALSE)),
    Link(TRUE, Word("yes", FALSE), Word("", FALSE)),
    Link(TRUE, Word("Down", TRUE), Word("", FALSE)),
    Link(TRUE, Word("Disconnected", TRUE), Word("", FALSE)),
    Link(TRUE, Word("yes", FALSE), Word("Unknown!", TRUE)) }
PktErrCounts == {0, 3, 7}
DropCounts == {0, 2, 21}
WinDelta(pe, dr) ==
  [k \in WinPktErrKeys \cup WinDropKeys |->
     IF k = "ReceivedErrors" THEN pe \div 2 ELSE IF k = "OutboundErrors" THEN pe - pe \div 2
     ELSE IF k = "ReceivedDiscarded" THEN dr ELSE 0]
NixDelta(pe, dr) ==
  [k \in NixPktErrKeys \cup NixDropKeys |->
     IF k = "rx_errors" THEN pe ELSE IF k = "tx_errors" THEN 0
     ELSE IF k = "rx_missed_errors" THEN dr \div 2
     ELSE IF k = "rx_dropped" THEN dr - dr \div 2 ELSE 0]
\* counters of one platform family, of the other, or of both
CounterDeltas ==
  {NoKeys}
    \cup {WinDelta(pe, dr) : pe \in PktErrCounts, dr \in DropCounts}
    \cup {NixDelta(pe, dr) : pe \in PktErrCounts, dr \in DropCounts}
    \cup {WinDelta(pe, dw) @@ NixDelta(3, dr) : pe \in {0, 7}, dw \in {0, 21}, dr \in {0, 2}}
    \cup {[k \in {key} |-> 3] : key \in {"OutboundErrors", "tx_dropped"}}
CrcDeltas ==
  {NoKeys} \cup { [k \in {key} |-> c] : key \in {"rx_crc_errors", "rx_fcs_errors", "crc_errors"},
                                         c \in {0, 2} }
Snapshots ==
  { [link |-> l, delta |-> d @@ c] : l \in Links, d \in CounterDeltas, c \in CrcDeltas }

\* a response of /api/stats is rendered into the cards
UpdateStatsCards(stats) ==
  /\ lastStats' = stats
  /\ cards' = updateStatsCards(stats)
  /\ UNCHANGED <<status, avg_speed, max_speed, disabled, overlay, result, bandwidthSum,
                 bandwidthCount, maxBandwidth, needle, gaugeMax, sweepTimer, sweepDir,
                 sweepAutoStopTimer, hasRealValue, nRuns, mode, units, readyState,
                 eventSource, iperfES, noDataTimer, lastCmd, fetch, closeCalls, idle,
                 samples, issued, displayedValue, readout, readoutRaf, parsed, poll,
                 refresh>>

StatsNext == \E stats \in Snapshots : UpdateStatsCards(stats)

StatsSpec == Init /\ [][StatsNext]_vars

\* ------------------------------------------------ the parser on its own
\* The lines extractBandwidth is followed on.  A figure is written with its
\* prefix and one of the spellings of the unit; figures with prefix K are
\* multiples of 1000 and the ones with prefix G are small, so that every
\* conversion is exact and stays within the integers.
DisplayUnits == {"Kbps", "Mbps", "Gbps"}
Figures ==
  { Mention(v * Kilo, p) : v \in {1000, 941000}, p \in {"K", "k"} }
    \cup { Mention(v * Kilo, p) : v \in {1, 100, 941}, p \in {"M", "m", ""} }
    \cup { Mention(v * Kilo, p) : v \in {1, 2}, p \in {"G", "g"} }
FigureText(f) == ToString(f.val \div Kilo) \o " " \o f.prefix \o "bits/sec"
ParseLines ==
  { Line(pad, FigureText(f), "", FALSE, 0, <<f>>) : pad \in BOOLEAN, f \in Figures }
    \cup { Line(FALSE, FigureText(f) \o " " \o FigureText(g), "", FALSE, 0, <<f, g>>) :
             f, g \in { Mention(941 * Kilo, "M"), Mention(2 * Kilo, "G"),
                        Mention(1000 * Kilo, "K"), Mention(100 * Kilo, "") } }
    \cup { Line(FALSE, FigureText(f) \o " " \o FigureText(g) \o " " \o FigureText(f),
                "", FALSE, 0, <<f, g, f>>) :
             f, g \in { Mention(941 * Kilo, "M"), Mention(1 * Kilo, "g") } }
    \cup { Line(pad, "941", "", TRUE, 941 * Kilo, <<>>) : pad \in BOOLEAN }
    \cup { Line(FALSE, "-5", "", TRUE, (0 - 5) * Kilo, <<>>),
           Line(FALSE, "0.5", "", TRUE, 500, <<>>),
           Line(FALSE, "1000000", "", TRUE, 1000000 * Kilo, <<>>) }
    \cup { Plain(pad, "Connecting to host 192.168.10.2, port 5201") : pad \in BOOLEAN }
    \cup { Plain(FALSE, "iperf Done."), Plain(FALSE, "- - - - -"),
           Plain(FALSE, "[ ID] Interval Transfer Bitrate"),
           Plain(FALSE, "941 MBytes"), Plain(FALSE, "+5"), Plain(FALSE, "5.") }

\* one call extractBandwidth(line, u)
ExtractBandwidth(line, u) ==
  /\ parsed' = [line |-> line, units |-> u, value |-> extractBandwidth(line, u)]
  /\ UNCHANGED <<status, avg_speed, max_speed, disabled, overlay, result, bandwidthSum,
                 bandwidthCount, maxBandwidth, needle, gaugeMax, sweepTimer, sweepDir,
                 sweepAutoStopTimer, hasRealValue, nRuns, mode, units, readyState,
                 eventSource, iperfES, noDataTimer, lastCmd, fetch, closeCalls, idle,
                 samples, issued, displayedValue, readout, readoutRaf, cards,
                 lastStats, poll, refresh>>

ParseNext == \E line \in ParseLines, u \in DisplayUnits : ExtractBandwidth(line, u)

ParseSpec == Init /\ [][ParseNext]_vars

\* -------------------------------------------------- the gauge on its own
\* gauge.js called through its exports: initGauge as the click handler calls
\* it for a display unit, and updateGauge with a sample.  Samples are in
\* thousandths of the display unit; the largest scales stay within the integers.
GaugeUnits == {"Mbps", "Gbps"}
GaugeSamples ==
  { 0 - 5 * Kilo, 0, 500, 800, 801, 900, 2350, 2900, 35 * Kilo, 45 * Kilo,
    100 * Kilo, 121 * Kilo, 250 * Kilo, 800 * Kilo, 941 * Kilo, 3500 * Kilo }

InitGauge(u) ==
  /\ u \in GaugeUnits
  /\ Commit(initGauge(State, TRUE, initialMax(u)))

UpdateGauge(v) ==
  /\ v \in GaugeSamples
  /\ Commit(updateGauge(State, v))

GaugeNext ==
  \/ \E u \in GaugeUnits : InitGauge(u)
  \/ \E v \in GaugeSamples : UpdateGauge(v)

GaugeSpec == Init /\ [][GaugeNext]_vars

\* ------------------------------------------- the two pollers of /api/stats
\* requests and timeouts outstanding at a time, per poller
MaxInFlight == 2

\* tick as it would be if it armed the next timeout before its request
tickEager(P) ==
  IF P.stopped THEN P
  ELSE [P EXCEPT !.inflight = @ + 1, !.timer = TRUE, !.pending = @ + 1]

\* tick of startStatsPolling up to its await: the request is issued
tick(P) ==
  IF P.stopped THEN P ELSE [P EXCEPT !.inflight = @ + 1]

\* the finally block of tick, once the request has settled
settled(P) ==
  LET Q == [P EXCEPT !.inflight = @ - 1]
  IN  IF Q.stopped THEN Q ELSE [Q EXCEPT !.timer = TRUE, !.pending = @ + 1]

\* the function startStatsPolling returns
stop(P) ==
  [P EXCEPT !.stopped = TRUE,
            !.pending = IF P.timer /\ @ > 0 THEN @ - 1 ELSE @,
            !.timer = FALSE]

startStatsPolling(P) ==
  tick([P EXCEPT !.started = TRUE, !.stopped = FALSE, !.timer = FALSE])

\* refreshStats of uiHandlers.js on a response: the link text, the CRC/FCS
\* card and the drop card
refreshStats(C, stats) ==
  LET link == stats.link
      speed == IF link.none THEN "" ELSE link.speed.body
      up == IF link.none THEN "" ELSE link.link.body
      linkTxt == IF speed # "" /\ up # "" THEN speed \o " | " \o up
                 ELSE IF speed # "" THEN speed
                 ELSE IF up # "" THEN up ELSE "--"
      delta == stats.delta
      crcDelta == sumOver(delta, {"rx_crc_errors", "rx_fcs_errors", "rx_frame_errors",
                                  "rx_length_errors", "rx_over_errors"})
      winErrDelta == sumOver(delta, {"ReceivedErrors", "OutboundErrors"})
      dropsDelta == sumOver(delta, {"rx_dropped", "tx_dropped", "rx_missed_errors",
                                    "ReceivedDiscarded", "OutboundDiscarded"})
      shownCrc == IF crcDelta > 0 THEN crcDelta ELSE winErrDelta
  IN  [C EXCEPT !.linkInfo = linkTxt,
                !.crcDelta = ToString(shownCrc),
                !.dropDelta = ToString(dropsDelta),
                !.cls.dropDelta = IF dropsDelta > 0 THEN "warn" ELSE "ok"]

\* the responses of /api/stats the pollers are followed on
PollSnapshots ==
  { [link |-> NoLink, delta |-> NoKeys],
    [link |-> Link(TRUE, Word("Up", FALSE), Word("1000Mb/s", FALSE)),
     delta |-> WinDelta(3, 0)],
    [link |-> Link(TRUE, Word("yes", FALSE), Word("", FALSE)),
     delta |-> NixDelta(0, 2) @@ [k \in {"rx_crc_errors"} |-> 2]],
    [link |-> Link(TRUE, Word("yes", FALSE), Word("", FALSE)),
     delta |-> NixDelta(0, 0) @@ [k \in {"rx_crc_errors"} |-> 0]] }

\* what the pollers leave alone
Page ==
  <<status, avg_speed, max_speed, disabled, overlay, result, bandwidthSum,
    bandwidthCount, maxBandwidth, needle, gaugeMax, sweepTimer, sweepDir,
    sweepAutoStopTimer, hasRealValue, nRuns, mode, units, readyState,
    eventSource, iperfES, noDataTimer, lastCmd, fetch, closeCalls, idle,
    samples, issued, displayedValue, readout, readoutRaf, parsed>>

\* DOMContentLoaded: main.js starts the loop
StartStatsPolling ==
  /\ ~poll.started
  /\ poll' = startStatsPolling(poll)
  /\ UNCHANGED <<cards, lastStats, refresh, Page>>

\* the request of the loop is answered with an OK status and a body
PollOk(stats) ==
  /\ poll.inflight > 0
  /\ cards' = updateStatsCards(stats)
  /\ lastStats' = stats
  /\ poll' = settled(poll)
  /\ UNCHANGED <<refresh, Page>>

\* the request of the loop rejects, or is answered with a non-OK status or
\* with a body that is not JSON
PollFails ==
  /\ poll.inflight > 0
  /\ poll' = settled(poll)
  /\ UNCHANGED <<cards, lastStats, refresh, Page>>

\* a timeout of the loop fires
PollTimer ==
  /\ poll.pending > 0
  /\ poll.inflight < MaxInFlight /\ poll.pending <= MaxInFlight
  /\ poll' = tick([poll EXCEPT !.pending = @ - 1])
  /\ UNCHANGED <<cards, lastStats, refresh, Page>>

\* the stop function is called
StopPolling ==
  /\ poll.started /\ ~poll.stopped
  /\ poll' = stop(poll)
  /\ UNCHANGED <<cards, lastStats, refresh, Page>>

\* the interval of uiHandlers.js fires with an interface selected: refreshStats
\* issues its request
RefreshInterval ==
  /\ refresh < MaxInFlight
  /\ refresh' = refresh + 1
  /\ UNCHANGED <<cards, lastStats, poll, Page>>

\* a request of refreshStats is answered with a JSON body
RefreshOk(stats) ==
  /\ refresh > 0
  /\ refresh' = refresh - 1
  /\ cards' = refreshStats(cards, stats)
  /\ lastStats' = stats
  /\ UNCHANGED <<poll, Page>>

\* a request of refreshStats rejects or its body is not JSON
RefreshFails ==
  /\ refresh > 0
  /\ refresh' = refresh - 1
  /\ UNCHANGED <<cards, lastStats, poll, Page>>

PollNext ==
  \/ StartStatsPolling
  \/ \E stats \in PollSnapshots : PollOk(stats)
  \/ PollFails
  \/ PollTimer
  \/ StopPolling
  \/ RefreshInterval
  \/ \E stats \in PollSnapshots : RefreshOk(stats)
  \/ RefreshFails

PollSpec == Init /\ [][PollNext]_vars

\* ============================================================== the claims
Open(r) == readyState[r] \in {"CONNECTING", "OPEN"}
Last(q) == q[Len(q)]
CmdLine == "CMD: " \o CmdText
(* the run has not been torn down by one of its own paths: each of them goes
   through cleanup, which cancels the run's timer, and the timer is armed from
   the click on *)
NotTornDown(r) == r \in 1..nRuns /\ noDataTimer[r] # TimerOff

\* C1: in every reachable state at most one event connection is open, and an
\* open connection is the latest run's and the one registered in
\* window.__iperfES; every connection of an earlier run has been closed.
OneConnection ==
  /\ Cardinality({r \in Runs : Open(r)}) <= 1
  /\ \A r \in Runs : Open(r) => r = nRuns /\ iperfES = r
  /\ \A r \in Runs : r < nRuns => readyState[r] = "CLOSED"

\* C1 witness: a second run's connection is open after the first run's was closed
SecondConnectionOpen ==
  nRuns = 2 /\ readyState[2] = "OPEN" /\ readyState[1] = "CLOSED" /\ closeCalls[1] > 0

\* C2: once the status is Complete, Error or Server is Busy, only a click on
\* the start control (a new run, status Starting) changes it.
TerminalIsFinal ==
  [][(status \in Terminal) =>
       (status' = status \/ (status' = "Starting" /\ nRuns' = nRuns + 1))]_vars

\* C3: while the latest run has not been torn down, the start control is
\* disabled.
DisabledDuringRun ==
  NotTornDown(nRuns) => disabled

TimerRearmedOnEveryMessage ==
  [][\A r \in Runs :
       /\ NoDataTimeout(r) => idle[r] >= NO_DATA_MS(mode[r])
       /\ \A p \in Payloads :
            (Deliver(r, p) /\ NotTornDown(r)') => noDataTimer'[r] = NO_DATA_MS(mode[r])]_vars

\* C6 witness: the timer fired after the run's last message, a status line
TimedOutAfterLastMessage ==
  /\ nRuns = 1 /\ status = "Error" /\ readyState[1] = "CLOSED"
  /\ noDataTimer[1] = TimerOff
  /\ result = <<"Running iPerf3...", "Connecting to host 192.168.10.2, port 5201",
                TimeoutLine>>

\* C7: when the inactivity timer fires, the status becomes Error, the timeout
\* message is appended to the log, the gauge is reset to 0 with the sweep
\* stopped, the connection is closed and the start control is enabled.
TimeoutEndsRun ==
  [][\A r \in Runs :
       NoDataTimeout(r) =>
         /\ status' = "Error"
         /\ Len(result') > Len(result) /\ result'[Len(result) + 1] = TimeoutLine
         /\ needle' = 0 /\ ~sweepTimer' /\ ~sweepAutoStopTimer' /\ ~hasRealValue'
         /\ readyState'[r] = "CLOSED" /\ ~eventSource'[r] /\ iperfES' = 0
         /\ noDataTimer'[r] = TimerOff
         /\ ~disabled']_vars

\* C7 witness: the timer fired on a run that had shown a sample on the gauge
TimedOutAfterSample ==
  /\ status = "Error" /\ Last(result) = TimeoutLine /\ bandwidthCount > 0
  /\ needle = 0 /\ ~disabled /\ readyState[nRuns] = "CLOSED"

\* the command is known to the page: captured from the start response, or
\* shown by a CMD: line of the latest run's stream
CmdKnown(r) ==
  \/ lastCmd[r] # ""
  \/ r = nRuns /\ \E i \in 1..Len(result) : result[i] = CmdLine

\* C8 as stated: whenever a command is known when the timer fires, from the
\* start response or from a CMD: line, the timeout entry is followed by it.
TimeoutNamesKnownCmd ==
  [][\A r \in Runs :
       (NoDataTimeout(r) /\ CmdKnown(r)) => Last(result') = LastCmdLine(CmdText)]_vars

\* C8 amended: the timeout entry is followed by the command exactly when one
\* was captured from the start request's success response, which is the only
\* place that captures it; a CMD: line of the stream is logged and not captured.
TimeoutNamesCapturedCmd ==
  [][\A r \in Runs :
       /\ NoDataTimeout(r) =>
            result' = IF lastCmd[r] # ""
                        THEN result \o <<TimeoutLine, LastCmdLine(lastCmd[r])>>
                        ELSE Append(result, TimeoutLine)
       /\ (lastCmd'[r] # lastCmd[r] /\ lastCmd'[r] # "") =>
            \E c \in Cmds : Accept(r, c)]_vars

\* C8 witness: a timeout entry followed by the captured command
TimeoutWithCmd ==
  /\ Len(result) >= 2 /\ Last(result) = LastCmdLine(CmdText)
  /\ result[Len(result) - 1] = TimeoutLine /\ status = "Error"

\* the run r has been ended as Error with the message msg
EndedWith(r, msg) ==
  /\ status = "Error"
  /\ Last(result) = msg
  /\ overlay.shown /\ overlay.msg = msg
  /\ noDataTimer[r] = TimerOff
  /\ readyState[r] = "CLOSED" /\ ~eventSource[r] /\ iperfES = 0

\* C9 as stated: a refused start request ends the run as Error with the JSON
\* error field, else the HTTP status text, as the message; a rejected or
\* aborted one with the message of what was thrown.
StartFailureEndsRun ==
  [][\A r \in Runs :
       /\ \A e \in ErrorFields, t \in StatusTexts :
            Refuse(r, e, t) => EndedWith(r, IF e # "" THEN e ELSE t)'
       /\ \A m \in Thrown : Reject(r, m) => EndedWith(r, m)']_vars

\* C9 amended: as stated, with the fixed text "Error starting iPerf3." as the
\* message when the response has neither an error field nor a status text.
StartFailureEndsRunWithDefault ==
  [][\A r \in Runs :
       /\ \A e \in ErrorFields, t \in StatusTexts :
            Refuse(r, e, t) =>
              EndedWith(r, IF e # "" THEN e ELSE IF t # "" THEN t ELSE DefaultStartError)'
       /\ \A m \in Thrown : Reject(r, m) => EndedWith(r, m)']_vars

\* C9 witness: a refusal without an error field, reported by its status text
RefusedWithStatusText ==
  /\ nRuns = 1 /\ fetch[1] = "done" /\ EndedWith(1, "CONFLICT") /\ overlay.kind = "error"
  /\ closeCalls[1] = 2

\* C10: a transport error that leaves the connection CLOSED ends the run as
\* Error and tears it down; any other transport error only re-arms the timer.
StreamErrorHandling ==
  [][\A r \in Runs :
       /\ Fail(r, "CLOSED") =>
            /\ status' = "Error" /\ Last(result') = ClosedLine
            /\ noDataTimer'[r] = TimerOff
            /\ readyState'[r] = "CLOSED" /\ ~eventSource'[r] /\ iperfES' = 0
            /\ ~disabled'
       /\ Fail(r, "CONNECTING") =>
            /\ noDataTimer' = [noDataTimer EXCEPT ![r] = NO_DATA_MS(mode[r])]
            /\ readyState' = [readyState EXCEPT ![r] = "CONNECTING"]
            /\ UNCHANGED <<status, avg_speed, max_speed, disabled, overlay, result,
                           bandwidthSum, bandwidthCount, maxBandwidth, needle, gaugeMax,
                           sweepTimer, sweepDir, sweepAutoStopTimer, hasRealValue, nRuns,
                           mode, units, eventSource, iperfES, lastCmd, fetch,
                           closeCalls, samples, issued, displayedValue, readout,
                           readoutRaf, cards, lastStats, parsed, poll, refresh>>]_vars

\* C10 witness: a running test's connection is reconnecting after a transient
\* error, its timer re-armed and everything else as it was
ReconnectingWhileRunning ==
  \E r \in Runs :
    /\ readyState[r] = "CONNECTING" /\ status = "Running" /\ bandwidthCount = 1
    /\ noDataTimer[r] = NO_DATA_MS(mode[r]) /\ idle[r] = 0
    /\ disabled /\ eventSource[r] /\ iperfES = r /\ needle = maxBandwidth

\* C11: when the stream delivers the message "server is busy", the status
\* becomes Server is Busy, the message is appended to the log, the gauge is
\* reset to 0 with the sweep stopped, the run's connection is closed and both
\* references to it dropped, the timer is cancelled and the start control is
\* enabled.
ServerBusyEndsRun ==
  [][\A r \in Runs, p \in Payloads :
       (Deliver(r, p) /\ trim(p).body = "server is busy") =>
         /\ status' = "Server is Busy"
         /\ result' = Append(result, "server is busy")
         /\ needle' = 0 /\ ~sweepTimer' /\ ~sweepAutoStopTimer' /\ ~hasRealValue'
         /\ readyState'[r] = "CLOSED" /\ ~eventSource'[r] /\ iperfES' = 0
         /\ noDataTimer'[r] = TimerOff
         /\ ~disabled']_vars

\* C11 witness: the server was busy after the gauge had shown a sample
BusyAfterSample ==
  /\ status = "Server is Busy" /\ Last(result) = "server is busy"
  /\ bandwidthCount = 1 /\ maxBandwidth > 0 /\ needle = 0
  /\ ~disabled /\ readyState[nRuns] = "CLOSED" /\ iperfES = 0

RECURSIVE Sum(_)
Sum(q) == IF q = <<>> THEN 0 ELSE q[1] + Sum(Tail(q))
\* the largest element of q, 0 for none
Largest(q) ==
  IF q = <<>> THEN 0 ELSE CHOOSE x \in {q[i] : i \in 1..Len(q)} : \A i \in 1..Len(q) : q[i] <= x
\* h hundredths is the mean of q (thousandths) to two decimals, 0.00 for none
IsMean2(h, q) ==
  IF q = <<>> THEN h = 0
  ELSE /\ 10 * h * Len(q) - 5 * Len(q) <= Sum(q)
       /\ Sum(q) <= 10 * h * Len(q) + 5 * Len(q)
EndMarkers == {p \in Payloads : trim(p).body = "-1"}

\* C12: when the end marker arrives, the status becomes Complete, the average
\* shown is the mean, to two decimals, of exactly the samples the stream has
\* delivered since the run started (0.00 for none) and the maximum shown is the
\* largest of them, both in the run's display unit; the aggregates hold exactly
\* those samples.
EndMarkerShowsMeanAndMax ==
  [][\A r \in Runs, p \in EndMarkers :
       Deliver(r, p) =>
         /\ status' = "Complete"
         /\ bandwidthCount = Len(samples) /\ bandwidthSum = Sum(samples)
         /\ IsMean2(avg_speed'.val, samples) /\ avg_speed'.units = units[r]
         /\ max_speed' = [val |-> Largest(samples), units |-> units[r]]]_vars

\* C12 witness: a second run completed after 100, 120 and 110: 110.00 and 120
SecondRunAveraged ==
  /\ nRuns = 2 /\ status = "Complete"
  /\ result = <<"Running iPerf3...", "100", "120", "110">>
  /\ avg_speed = [val |-> 11000, units |-> "Mbps"]
  /\ max_speed = [val |-> 120 * Kilo, units |-> "Mbps"]

\* what a success response leaves alone and what it records, apart from the overlay
SuccessFrame(r, c) ==
  /\ UNCHANGED <<status, avg_speed, max_speed, disabled, bandwidthSum, bandwidthCount,
                 maxBandwidth, needle, gaugeMax, sweepTimer, sweepDir,
                 sweepAutoStopTimer, hasRealValue, noDataTimer, readyState,
                 eventSource, iperfES, closeCalls>>
  /\ lastCmd'[r] = IF over(State, r) THEN "" ELSE trim(c).body
  /\ result' = IF trim(c).body # "" THEN Append(result, "CMD: " \o trim(c).body)
               ELSE result
\* the status becomes Complete through the stream's end marker alone
CompleteByMarkerOnly ==
  (status' = "Complete" /\ status # "Complete") =>
    \E r \in Runs, p \in EndMarkers : Deliver(r, p)

\* C13 as stated: a success response to the start request leaves the status,
\* the aggregates, the gauge, the timer and the connection unchanged and does
\* nothing but record the command and append it to the log; the status becomes
\* Complete through the end marker alone.
SuccessOnlyRecordsCmd ==
  [][/\ \A r \in Runs, c \in Cmds :
          Accept(r, c) => (SuccessFrame(r, c) /\ overlay' = overlay)
     /\ CompleteByMarkerOnly]_vars

\* C13 amended: as stated, except that the success response also shows the
\* overlay with its "connected, test running" text, whatever the overlay was
\* and whether or not the run is still in progress.
SuccessRecordsCmdAndShowsConnected ==
  [][/\ \A r \in Runs, c \in Cmds :
          Accept(r, c) =>
            /\ SuccessFrame(r, c)
            /\ overlay' = [shown |-> TRUE, close |-> FALSE, kind |-> "connected",
                           msg |-> "", val |-> 0]
     /\ CompleteByMarkerOnly]_vars

\* C13 witness: the success response arrived while the test was running
AcceptedWhileRunning ==
  /\ nRuns = 1 /\ fetch[1] = "done" /\ status = "Running" /\ bandwidthCount = 1
  /\ Last(result) = CmdLine /\ lastCmd[1] = CmdText /\ overlay.kind = "connected"
  /\ readyState[1] = "OPEN" /\ noDataTimer[1] # TimerOff

\* C14: handling the end marker leaves the gauge as it is (needle, scale
\* maximum, sweep timers and the real-value flag are the ones before it) and
\* releases the connection: it is closed and both references are dropped.
EndMarkerKeepsGauge ==
  [][\A r \in Runs, p \in EndMarkers :
       Deliver(r, p) =>
         /\ UNCHANGED <<needle, gaugeMax, hasRealValue, sweepTimer, sweepDir,
                        sweepAutoStopTimer, displayedValue>>
         /\ readyState'[r] = "CLOSED" /\ ~eventSource'[r] /\ iperfES' = 0]_vars

\* C14 witness: a run completed with the needle on its last sample, 900, and
\* the scale that sample had expanded
CompletedWithNeedleOnSample ==
  /\ status = "Complete" /\ needle = 900 * Kilo /\ gaugeMax = 1200 * Kilo
  /\ hasRealValue /\ max_speed.val = needle
  /\ readyState[nRuns] = "CLOSED" /\ iperfES = 0 /\ ~disabled

\* the failure msg is visible on the overlay, in the status text and in the log
Visible(msg) ==
  /\ overlay.shown /\ overlay.kind \in {"error", "startError"}
  /\ status \in {"Error", "Server is Busy"}
  /\ \E i \in 1..Len(result) : result[i] = msg

\* C15: after each error outcome (inactivity timeout, closed stream, server
\* busy, failure of the start request) the overlay shows the failure, the
\* status text shows an error state and the log contains the message.
ErrorsVisibleEverywhere ==
  [][\A r \in Runs :
       /\ NoDataTimeout(r) => Visible(TimeoutLine)'
       /\ Fail(r, "CLOSED") => Visible(ClosedLine)'
       /\ \A p \in Payloads :
            (Deliver(r, p) /\ trim(p).body = "server is busy") => Visible("server is busy")'
       /\ \A e \in ErrorFields, t \in StatusTexts :
            Refuse(r, e, t) =>
              Visible(IF e # "" THEN e ELSE IF t # "" THEN t ELSE DefaultStartError)'
       /\ \A m \in Thrown : Reject(r, m) => Visible(m)']_vars

\* the places in issued[r] where the click handler did op
At(r, op) == {i \in 1..Len(issued[r]) : issued[r][i].op = op}
\* the correlation ids a run has used for op
Cids(r, op) == {issued[r][i].cid : i \in At(r, op)}

Probes(max) ==
  {d * Pow10[k] : d \in {5, 9, 10, 12, 20, 48, 50, 79, 80, 81, 99}, k \in 0..5}
    \cup {(4 * max) \div 5, (4 * max) \div 5 + 1, max - 1, max, max + 1}

\* C17: the scale maximum never decreases within one run: no step of a run
\* lowers it, and on every scale that a run starts with or that its samples
\* lead to, whatever sample is fed to updateGauge next, the maximum after it is
\* at least the one before.
ScaleNeverShrinks ==
  [][/\ nRuns' = nRuns => gaugeMax' >= gaugeMax
     /\ (gaugeMax' # gaugeMax \/ nRuns' # nRuns) =>
          \A v \in Probes(gaugeMax') :
            updateGauge([State EXCEPT !.gaugeMax = gaugeMax'], v).gaugeMax >= gaugeMax']_vars

\* C17 witness: after 100, 500 and 110 the maximum is the one reached at 500
ScaleKeptAfterSmallerSample ==
  /\ samples = <<100 * Kilo, 500 * Kilo, 110 * Kilo>>
  /\ needle = 110 * Kilo /\ gaugeMax = 600 * Kilo /\ nRuns = 2

\* C18: when the auto-stop timer of a sweep fires (no sample has arrived, or it
\* would have been cancelled), it cancels the sweep interval and sets the
\* needle to 0; from then on the needle stays where it is and no sweep is
\* running until a sample arrives or a new run starts.
AutoStopStillsGauge ==
  [][/\ SweepAutoStop =>
          (~hasRealValue /\ ~sweepTimer' /\ ~sweepAutoStopTimer' /\ needle' = 0)
     /\ (~sweepTimer /\ ~sweepAutoStopTimer /\ ~hasRealValue) =>
          \/ needle' = needle /\ ~sweepTimer' /\ ~sweepAutoStopTimer' /\ ~SweepTick
          \/ hasRealValue'
          \/ nRuns' = nRuns + 1]_vars

\* C18 witness: the sweep of a run that is still waiting for its first sample
\* has been stopped by its auto-stop timer after a sweep tick
SweepAutoStopped ==
  /\ nRuns = 1 /\ status = "Starting" /\ noDataTimer[1] # TimerOff
  /\ ~sweepTimer /\ ~sweepAutoStopTimer /\ ~hasRealValue
  /\ needle = 0 /\ sweepDir = 0 - 1

\* C19: every readout refresh that runs while the sweep interval is active and
\* no real sample has arrived writes 0, wherever the pointer is drawn.
ReadoutZeroWhileSweeping ==
  [][(ReadoutTick /\ sweepTimer /\ ~hasRealValue) => readout' = 0]_vars

\* C19 witness: the readout has been written during the sweep of the first run
\* and shows 0 while the pointer is drawn at the top of the sweep
ZeroShownAtSweepTop ==
  /\ nRuns = 1 /\ sweepTimer /\ ~hasRealValue
  /\ displayedValue = sweepTop(State) /\ displayedValue > 0
  /\ readout = 0

\* the link of a response is reported down or disconnected
ReportedDown(stats) ==
  /\ ~stats.link.none /\ stats.link.ok
  /\ stats.link.link.body \in {"Down", "Disconnected"}
\* the verdict of C20 for a response
Verdict(stats) ==
  LET crc   == sumKeys(stats.delta, CrcKeys)
      score == pktErrOf(stats.delta) + dropOf(stats.delta)
  IN  IF ReportedDown(stats) THEN "BAD (link)"
      ELSE IF crc > 0 THEN "BAD (CRC +" \o ToString(crc) \o ")"
      ELSE IF score = 0 THEN "OK"
      ELSE IF score <= 5 THEN "WARN (+" \o ToString(score) \o ")"
      ELSE "BAD (+" \o ToString(score) \o ")"

\* C20: for every response the quality verdict follows the precedence: a link
\* reported down or disconnected gives BAD (link) whatever the counters are;
\* otherwise a CRC/FCS count above zero gives BAD (CRC); otherwise the score,
\* packet errors plus drops, gives OK for 0, WARN for 1 to 5 and BAD above 5.
VerdictFollowsPrecedence ==
  cards # NoCards => cards.qualityBadge = Verdict(lastStats)

\* C21: for every counter snapshot the CRC/FCS card shows the summed count,
\* 0 included, when at least one of the keys that are summed is present in the
\* snapshot, and "n/a" only when none of them is.
CrcCardShowsCountWhenKeyPresent ==
  cards # NoCards =>
    cards.crcDelta = IF DOMAIN lastStats.delta \cap CrcKeys # {}
                       THEN ToString(sumKeys(lastStats.delta, CrcKeys))
                       ELSE "n/a"

\* K, M, G as powers of 1000 over K
Rank(x) ==
  IF x \in {"K", "k", "Kbps"} THEN 0 ELSE IF x \in {"G", "g", "Gbps"} THEN 2 ELSE 1
\* r is the figure val with prefix p expressed in the display unit u
Converts(val, p, u, r) ==
  IF Rank(p) >= Rank(u)
    THEN r = val * Pow10[3 * (Rank(p) - Rank(u))]
    ELSE val % Pow10[3 * (Rank(u) - Rank(p))] = 0
         /\ r = val \div Pow10[3 * (Rank(u) - Rank(p))]
\* the last call was made on a line that mentions a bandwidth and is not a
\* plain number
OnFigure == parsed # NoCall /\ ~parsed.line.pure /\ Len(parsed.line.bw) > 0

\* C22: a bandwidth figure with prefix K, M or G (none meaning M) is returned
\* expressed in the display unit: K figures are a thousandth of the M figure,
\* G figures a thousand times it, and the M figure is a thousand times less
\* in Gbps and a thousand times more in Kbps; "941 Mbits/sec" gives 941 for
\* Mbps, 0.941 for Gbps and 941000 for Kbps.
FigureConvertedToDisplayUnit ==
  /\ OnFigure =>
       /\ ~parsed.value.nan
       /\ Converts(Last(parsed.line.bw).val, Last(parsed.line.bw).prefix,
                   parsed.units, parsed.value.v)
  /\ (parsed # NoCall /\ parsed.line.body = "941 Mbits/sec") =>
       parsed.value = Num(IF parsed.units = "Mbps" THEN 941 * Kilo
                          ELSE IF parsed.units = "Gbps" THEN 941
                          ELSE 941000 * Kilo)

\* C22 witness: a figure in Kbits/sec has been converted for a display in Gbps
KiloFigureShownInGbps ==
  /\ OnFigure /\ parsed.units = "Gbps"
  /\ Last(parsed.line.bw) = Mention(941000 * Kilo, "k")
  /\ parsed.value = Num(941)

\* C23: of several bandwidth mentions in a line only the last one counts; a
\* line without a mention that is not a plain signed decimal number gives NaN;
\* a plain signed decimal number is returned as it is for every display unit.
LastMentionOrNumberOrNaN ==
  parsed # NoCall =>
    /\ OnFigure =>
         parsed.value = Num(toSelectedUnits(Last(parsed.line.bw).val,
                                            Last(parsed.line.bw).prefix, parsed.units))
    /\ (~parsed.line.pure /\ Len(parsed.line.bw) = 0) => parsed.value = NaN
    /\ parsed.line.pure => parsed.value = Num(parsed.line.num)

\* C23 witness: a line with two mentions in different prefixes has given the
\* figure of the second one
SecondOfTwoMentionsTaken ==
  /\ OnFigure /\ parsed.units = "Mbps"
  /\ parsed.line.bw = <<Mention(2 * Kilo, "G"), Mention(941 * Kilo, "M")>>
  /\ parsed.value = Num(941 * Kilo)

\* a callback that run r registered runs: a continuation of its start request,
\* its inactivity timer, or a handler of its stream
CallbackOf(r) ==
  \/ StartOk(r) \/ StartFailed(r) \/ StartThrows(r)
  \/ NoDataTimeout(r)
  \/ SseOpen(r) \/ SseMessage(r) \/ SseError(r)

\* C24: once a later run has started, no callback of an earlier run acts on
\* it: the later run's connection is not closed, the button is not re-enabled,
\* the gauge is not reset, and the status and the aggregates stay as they are.
EarlierRunLeavesLaterRunAlone ==
  [][\A r \in Runs :
       (r < nRuns /\ CallbackOf(r)) =>
         /\ readyState'[nRuns] = readyState[nRuns]
         /\ closeCalls'[nRuns] = closeCalls[nRuns]
         /\ iperfES' = iperfES
         /\ UNCHANGED <<disabled, needle, gaugeMax, hasRealValue, sweepTimer,
                        sweepAutoStopTimer, status, bandwidthSum, bandwidthCount,
                        maxBandwidth, avg_speed, max_speed>>]_vars

\* the stream of run r delivers p, a sample for the run's display unit
SampleFrom(r, p) ==
  (Deliver(r, p) \/ Measure(r, p)) /\ IsSample(p, units[r])

\* C25: a real sample puts the gauge into Live with the needle on the
\* sample's value and cancels the sweep interval and the auto-stop timer;
\* while the gauge is Live neither of them is pending, and no sweep tick and
\* no auto-stop moves the needle.
SampleEndsSweepForGood ==
  /\ [][\A r \in Runs : \A p \in Payloads \cup SamplePayloads :
          SampleFrom(r, p) =>
            /\ hasRealValue' /\ ~sweepTimer' /\ ~sweepAutoStopTimer'
            /\ needle' = extractBandwidth(p, units[r]).v]_vars
  /\ [](hasRealValue => ~sweepTimer /\ ~sweepAutoStopTimer)
  /\ [][(hasRealValue /\ (SweepTick \/ SweepAutoStop)) => needle' = needle]_vars

\* C25 witness: the first sample of a run has arrived and the needle is on
\* its value, with the sweep interval and the auto-stop timer cancelled
LiveOnFirstSample ==
  /\ hasRealValue /\ bandwidthCount = 1 /\ status = "Running"
  /\ needle = 100 * Kilo /\ needle = maxBandwidth
  /\ ~sweepTimer /\ ~sweepAutoStopTimer

\* s is 1, 2 or 5 times a power of ten (in thousandths)
Nice(s) == \E k \in 0..7 : \E n \in {1, 2, 5} : s = n * Pow10[k]

\* C26: the scale is recomputed exactly when the sample is above 0.8 times
\* the maximum; the new maximum is then a multiple of a step that is 1, 2 or
\* 5 times a power of ten, it is at least 1.2 times the sample, and the number
\* of gradations, new maximum / step, is below 6; a sample of at most 0.8
\* times the maximum leaves the scale as it is.
ExpansionToNiceScale ==
  [][\A v \in GaugeSamples :
       UpdateGauge(v) =>
         IF 5 * v > 4 * gaugeMax
           THEN /\ Nice(niceStep(v))
                /\ gaugeMax' % niceStep(v) = 0
                /\ 5 * gaugeMax' >= 6 * v
                /\ gaugeMax' \div niceStep(v) < 6
           ELSE gaugeMax' = gaugeMax]_vars

\* C26 as the code has it: the step is the first of 1, 2 and 5 times the
\* magnitude that puts the candidate, 1.2 times the sample, below 6 steps, and
\* 5 times the magnitude when none does; the new maximum is the candidate
\* rounded up to a multiple of the step.  Its gradations are at most 6 in the
\* first case and at most 10 in the second.
ExpansionToMultipleOfStep ==
  [][\A v \in GaugeSamples :
       UpdateGauge(v) =>
         IF 5 * v > 4 * gaugeMax
           THEN /\ Nice(niceStep(v))
                /\ gaugeMax' % niceStep(v) = 0
                /\ 5 * gaugeMax' >= 6 * v
                /\ 5 * (gaugeMax' - niceStep(v)) < 6 * v
                /\ gaugeMax' \div niceStep(v) <= 10
                /\ v < 5 * niceStep(v) => gaugeMax' \div niceStep(v) <= 6
           ELSE gaugeMax' = gaugeMax]_vars

\* C26 witness: a sample of 35 on a smaller scale has given a scale of 45 in
\* steps of 5, nine gradations
NineGradations ==
  /\ hasRealValue /\ needle = 35 * Kilo
  /\ gaugeMax = 45 * Kilo /\ niceStep(needle) = 5 * Kilo

\* p is neither a sample for the display unit u nor the end marker nor the
\* busy message: an empty payload, a heartbeat, a tagged line, or a line from
\* which no figure can be read
NonSample(p, u) ==
  /\ trim(p).body \notin {"-1", "server is busy"}
  /\ ~IsSample(p, u)

Count(d, k) == IF k \in DOMAIN d THEN d[k] ELSE 0
WinPktErr(d) == Count(d, "ReceivedErrors") + Count(d, "OutboundErrors")
NixPktErr(d) == Count(d, "rx_errors") + Count(d, "tx_errors")
WinDrop(d) == Count(d, "ReceivedDiscarded") + Count(d, "OutboundDiscarded")
NixDrop(d) ==
  Count(d, "rx_dropped") + Count(d, "tx_dropped") + Count(d, "rx_missed_errors")

\* C28: the packet-error card and the drop card show the sum of the
\* Windows-style keys when that sum is not zero and the sum of the Linux-style
\* keys otherwise, absent keys counting as zero; when both sums are non-zero
\* it is the Windows-style one.
WindowsSumFirst ==
  cards # NoCards =>
    LET d == lastStats.delta
    IN  /\ cards.pktErrDelta =
             ToString(IF WinPktErr(d) # 0 THEN WinPktErr(d) ELSE NixPktErr(d))
        /\ cards.dropDelta =
             ToString(IF WinDrop(d) # 0 THEN WinDrop(d) ELSE NixDrop(d))

\* C28 witness: a snapshot with non-zero counters of both families has been
\* rendered with the Windows-style sums
BothFamiliesRendered ==
  /\ cards # NoCards
  /\ WinPktErr(lastStats.delta) = 7 /\ NixPktErr(lastStats.delta) = 3
  /\ WinDrop(lastStats.delta) = 21 /\ NixDrop(lastStats.delta) = 2
  /\ cards.pktErrDelta = "7" /\ cards.dropDelta = "21"

\* C29: whenever the status is Complete the progress overlay is hidden,
\* whether the end marker of the stream or the response to the start request
\* arrives first.
CompleteHidesOverlay ==
  status = "Complete" => ~overlay.shown

\* C30: whenever the sweep interval of the gauge is active, the current run
\* has collected no sample: its count and its sum are 0.
SweepOnlyBeforeSamples ==
  sweepTimer => bandwidthCount = 0 /\ bandwidthSum = 0

\* C30 witness: the sweep of a second run is under way, the needle at the top
\* of the sweep, after the aggregates were reset
SecondRunSweeping ==
  /\ nRuns = 2 /\ sweepTimer /\ ~hasRealValue
  /\ needle = sweepTop(State) /\ needle > 0
  /\ bandwidthCount = 0 /\ bandwidthSum = 0 /\ status = "Starting"

\* C31: after every real sample v given to updateGauge the needle is on v and
\* within the scale: v is at most the maximum, and when v was above 0.8 times
\* the maximum before, the maximum is now at least 1.2 times v.
NeedleWithinScale ==
  /\ [][\A v \in GaugeSamples :
          UpdateGauge(v) =>
            /\ needle' = v /\ v <= gaugeMax'
            /\ 5 * v > 4 * gaugeMax => 5 * gaugeMax' >= 6 * v]_vars
  /\ [](hasRealValue => needle <= gaugeMax)

\* C31 witness: a sample of 3500 has been applied and the scale, which was
\* smaller, has grown to 4500
NeedleOnLargeSample ==
  /\ hasRealValue /\ needle = 3500 * Kilo /\ gaugeMax = 4500 * Kilo

\* C32: from the start of a run until its first real sample every frame of
\* the readout loop writes 0, also after the auto-stop of the sweep or a reset
\* of the gauge, while the pointer is still on its way back to 0.
ReadoutZeroUntilFirstSample ==
  [][(ReadoutTick /\ nRuns >= 1 /\ bandwidthCount = 0 /\ ~hasRealValue)
       => readout' = 0]_vars

\* C33: the loop of startStatsPolling is sequential: at most one request is
\* in flight, at most one timeout is pending, and never both; a timeout is
\* armed only by the settling of the request before it, answered or failed;
\* a failed poll changes no card and, unless the loop was stopped, arms the
\* next timeout.
PollingIsSequential ==
  /\ [](poll.inflight <= 1 /\ poll.pending <= 1 /\ poll.inflight + poll.pending <= 1)
  /\ [][poll'.pending > poll.pending => poll'.inflight < poll.inflight]_vars
  /\ [][PollFails =>
          /\ cards' = cards
          /\ poll'.stopped = poll.stopped
          /\ ~poll.stopped => poll'.pending = 1]_vars

\* C33 witness: after a failed poll the cards are still empty and the next
\* timeout is pending
RearmedAfterFailedPoll ==
  /\ poll.started /\ ~poll.stopped
  /\ poll.pending = 1 /\ poll.inflight = 0 /\ cards = NoCards

\* C34: once the stop function has been called, the loop issues no request,
\* has no timeout pending and updates no card, whether it was stopped between
\* two polls or with a request in flight.
StoppedLoopIsSilent ==
  /\ [](poll.stopped => poll.pending = 0)
  /\ [][poll.stopped => poll'.inflight <= poll.inflight]_vars
  /\ [][(poll.stopped /\ ((\E stats \in PollSnapshots : PollOk(stats)) \/ PollFails))
          => cards' = cards]_vars

\* C35: the CRC/FCS card always shows what updateStatsCards computes for the
\* /api/stats response that completed last, however the periodic tasks of the
\* page interleave.
CrcCardFromAggregatorOnly ==
  cards # NoCards => cards.crcDelta = updateStatsCards(lastStats).crcDelta

====
